---- MODULE Spec2Model ----
(***************************************************************************)
(* Model of the branching-text tree engine of loom (src/main.ts, first     *)
(* LoomPlugin class): one document (NoteState) with its node map, the      *)
(* host editor buffer, the structural commands, the editor-change          *)
(* reconciliation and the asynchronous generation pipeline.                *)
(*                                                                         *)
(* Texts are sequences of one-character strings.  Node ids (uuidv4 in the  *)
(* source) are the naturals 1, 2, ... handed out in creation order, so the *)
(* insertion order that Object.entries follows is the numeric order.       *)
(* Handlers run to completion; the only suspension point is the provider   *)
(* call of generate, modelled by the sequence `inflight`.                  *)
(* workspace.trigger runs the handlers synchronously and contains their    *)
(* exceptions (it reports them asynchronously), so a handler that throws   *)
(* keeps the assignments it made before the throw and its caller goes on.  *)
(***************************************************************************)
EXTENDS Integers, Sequences, FiniteSets, TLC

\* ---------------------------------------------------------------- bounds
MaxId == 3          \* ids ever handed out by newNode
MaxLen == 1         \* length of a buffer typed by the user
MaxInflight == 2    \* provider calls outstanding at once
MaxCompl == 2       \* completions in one provider answer
MaxHoist == 2       \* depth of the hoist stack
MaxDocNodes == 2    \* nodes of a document opened with a tree already in it
MaxText == 2        \* length of a node text of such a document
MaxTerm == 2        \* length of a search term
MaxStamp == 2       \* distinct lastVisited stamps on the nodes of a document
MaxEdit == 3        \* length of an editor text handed to the reconciliation
MaxContext == 3     \* greatest contextLength and maxTokens setting

\* ------------------------------------------------------------- constants
Null == 0           \* JavaScript null (parentId of a root, generating when idle)
Undef == 0 - 1      \* JavaScript undefined (ids[0] of an empty array)

Alphabet == {"a", " "}
Whitespace == {" "}
Providers == {"ocp", "openai-chat"}
DefaultProvider == "ocp"
ChatProviders == {"azure-chat", "openai-chat"}

VARIABLES
  nodes,       \* state.nodes : id -> Node
  current,     \* state.current
  hoisted,     \* state.hoisted
  generating,  \* state.generating
  buffer,      \* editor.getValue()
  nextId,      \* next id newNode hands out
  inflight,    \* generate() activations suspended at the provider call
  provider     \* settings.provider

vars == <<nodes, current, hoisted, generating, buffer, nextId, inflight, provider>>

\* ------------------------------------------------------------ text helpers
Range(q) == {q[k] : k \in 1..Len(q)}

Min(a, b) == IF a < b THEN a ELSE b
Max(a, b) == IF a < b THEN b ELSE a

\* all texts over Alphabet of length at most n
TextsUpTo(n) == UNION {[1..k -> Alphabet] : k \in 0..n}

\* String.prototype.startsWith
startsWith(t, p) == Len(p) <= Len(t) /\ SubSeq(t, 1, Len(p)) = p

\* a substring that returns its receiver whole
substringWhole(t, a, b) == t

\* String.prototype.substring(a, b): arguments clamped to [0, length], swapped when a > b
substring(t, a, b) ==
  LET a1 == Min(Max(a, 0), Len(t))
      b1 == Min(Max(b, 0), Len(t))
  IN SubSeq(t, Min(a1, b1) + 1, Max(a1, b1))

\* String.prototype.substring(a) / slice(a) for a >= 0
substringFrom(t, a) == SubSeq(t, Min(a, Len(t)) + 1, Len(t))

RECURSIVE join(_)
\* Array.prototype.join("") over a sequence of texts
join(ts) == IF Len(ts) = 0 THEN <<>> ELSE Head(ts) \o join(Tail(ts))

\* prompt.match(/\s+$/) is non-null
endsWithWhitespace(t) == Len(t) > 0 /\ t[Len(t)] \in Whitespace

RECURSIVE SortedSeq(_)
SortedSeq(S) ==
  IF S = {} THEN <<>>
  ELSE LET m == CHOOSE x \in S : \A y \in S : x <= y
       IN <<m>> \o SortedSeq(S \ {m})

\* ------------------------------------------------------------- node store
\* Object.entries(state.nodes) ids, in insertion order
entries(ns) == SortedSeq(DOMAIN ns)

\* ids whose parentId === p, in insertion order (p = Null gives the roots)
childrenOf(ns, p) == SelectSeq(entries(ns), LAMBDA i : ns[i].parentId = p)

newNode(text, parentId, unread) ==
  [text |-> text, parentId |-> parentId, collapsed |-> FALSE, unread |-> unread]

RECURSIVE Chain(_, _, _)
\* ids met when following parentId from id, id first; the walk ends at a
\* null/undefined link, after a missing id, or when fuel runs out
Chain(ns, id, fuel) ==
  IF id = Null \/ id = Undef \/ fuel = 0 THEN <<>>
  ELSE IF id \notin DOMAIN ns THEN <<id>>
  ELSE <<id>> \o Chain(ns, ns[id].parentId, fuel - 1)

Fuel(ns) == Cardinality(DOMAIN ns) + 1

\* the parentId walk from id finishes without dereferencing a missing node
ChainOK(ns, id) ==
  LET c == Chain(ns, id, Fuel(ns))
  IN /\ id \in DOMAIN ns
     /\ \A k \in 1..Len(c) : c[k] \in DOMAIN ns
     /\ Len(c) < Fuel(ns)

Reverse(q) == [k \in 1..Len(q) |-> q[Len(q) + 1 - k]]

\* id is a or a descendant of a
inSubtree(ns, id, a) == a \in Range(Chain(ns, id, Fuel(ns)))

\* how the while loop of ancestors() and of fullText() ends when started at
\* id: it returns at a null parentId, raises a TypeError when it dereferences
\* an id the node map lacks, and never ends when the parentId links it
\* follows come back to a node already met (the loop keeps no visited set)
parentWalk(ns, id) ==
  LET c == Chain(ns, id, Fuel(ns))
  IN IF \E k \in 1..Len(c) : c[k] \notin DOMAIN ns THEN "TypeError"
     ELSE IF Len(c) = Fuel(ns) THEN "diverges"
     ELSE "returns"

\* ancestors(file, id): root first, id excluded (defined when ChainOK)
ancestors(ns, id) == Reverse(Tail(Chain(ns, id, Fuel(ns))))

\* family(file, id)
family(ns, id) == ancestors(ns, id) \o <<id>>

\* fullText(file, id); fullText(file, null) is ""
fullText(ns, id) ==
  IF id = Null \/ id = Undef THEN <<>>
  ELSE LET f == family(ns, id) IN join([k \in 1..Len(f) |-> ns[f[k]].text])

\* ---------------------------------------------------------- handler state
\* the part of the program state the synchronous handlers read and write;
\* thrown records that an exception was raised while the handlers ran
St == [nodes |-> nodes, current |-> current, hoisted |-> hoisted,
       buffer |-> buffer, nextId |-> nextId, thrown |-> FALSE]

Commit(s) ==
  /\ nextId' = s.nextId
  /\ current' = s.current
  /\ buffer' = s.buffer
  /\ hoisted' = s.hoisted
  /\ nodes' = s.nodes

Throw(s) == [s EXCEPT !.thrown = TRUE]

\* ----------------------------------------------------- buffer reconciler
\* an editNode that does not cut the suffix off the new text
editNodeKeepSuffix(ns, anc, familyTexts, text, i) ==
  [ns EXCEPT ![anc[i + 1]].text = substringFrom(text, Len(join(SubSeq(familyTexts, 1, i))))]

\* editNode(i) of the editor-change handler (i is 0-based in the source)
editNode(ns, anc, familyTexts, text, i) ==
  LET prefix == join(SubSeq(familyTexts, 1, i))
      suffix == join(SubSeq(familyTexts, i + 2, Len(familyTexts)))
      cut == substringFrom(text, Len(prefix))
      newText == substring(cut, 0, Len(cut) - Len(suffix))
  IN [ns EXCEPT ![anc[i + 1]].text = newText]

\* a reconciliation that cuts the current node's text after as many
\* characters as there are ancestors, not after the ancestors' text
reconcileSliceByCount(ns, cur, text) ==
  LET anc == ancestors(ns, cur)
      ancestorTexts == [k \in 1..Len(anc) |-> ns[anc[k]].text]
      familyTexts == Append(ancestorTexts, ns[cur].text)
      mismatch == {i \in 0..(Len(anc) - 1) :
                     ~startsWith(text, join(SubSeq(ancestorTexts, 1, i + 1)))}
  IN IF mismatch # {}
     THEN editNode(ns, anc, familyTexts, text,
                   CHOOSE i \in mismatch : \A j \in mismatch : i <= j)
     ELSE [ns EXCEPT ![cur].text = substringFrom(text, Len(anc))]

\* a reconciliation that hands the whole editor text to the current node
reconcileWholeText(ns, cur, text) == [ns EXCEPT ![cur].text = text]

\* body of the editor-change handler once the note has a state and the
\* ancestor walk of `current` has succeeded: the node map after reconciling
\* the active path with the editor text
reconcile(ns, cur, text) ==
  LET anc == ancestors(ns, cur)
      ancestorTexts == [k \in 1..Len(anc) |-> ns[anc[k]].text]
      familyTexts == Append(ancestorTexts, ns[cur].text)
      mismatch == {i \in 0..(Len(anc) - 1) :
                     ~startsWith(text, join(SubSeq(ancestorTexts, 1, i + 1)))}
  IN IF mismatch # {}
     THEN editNode(ns, anc, familyTexts, text,
                   CHOOSE i \in mismatch : \A j \in mismatch : i <= j)
     ELSE [ns EXCEPT ![cur].text = substringFrom(text, Len(join(ancestorTexts)))]

\* the editor-change handler, run on the editor text `text`
editorChange(s, text) ==
  IF ~ChainOK(s.nodes, s.current) THEN Throw(s)
  ELSE [s EXCEPT !.nodes = reconcile(s.nodes, s.current, text)]

\* editor.setValue(text): the buffer is replaced and the editor-change
\* handler runs on the new contents
setValue(s, text) == editorChange([s EXCEPT !.buffer = text], text)

\* ------------------------------------------------------------ navigation
\* a loom:switch-to handler that flips the unread flag instead of clearing it
switchToFlipUnread(s, id) ==
  LET s1 == [s EXCEPT !.current = id]
  IN IF id \notin DOMAIN s.nodes THEN Throw(s1)
     ELSE LET n1 == [s.nodes EXCEPT ![id].unread = ~s.nodes[id].unread]
              s2 == [s1 EXCEPT !.nodes = n1]
          IN IF ~ChainOK(n1, id) THEN Throw(s2)
             ELSE LET anc == Range(ancestors(n1, id))
                      n2 == [k \in DOMAIN n1 |->
                               IF k \in anc THEN [n1[k] EXCEPT !.collapsed = FALSE]
                               ELSE n1[k]]
                  IN setValue([s2 EXCEPT !.nodes = n2], fullText(n2, id))

\* a loom:switch-to handler without the pass that uncollapses the ancestors
switchToNoUncollapse(s, id) ==
  LET s1 == [s EXCEPT !.current = id]
  IN IF id \notin DOMAIN s.nodes THEN Throw(s1)
     ELSE LET n1 == [s.nodes EXCEPT ![id].unread = FALSE]
              s2 == [s1 EXCEPT !.nodes = n1]
          IN IF ~ChainOK(n1, id) THEN Throw(s2)
             ELSE setValue(s2, fullText(n1, id))

\* the loom:switch-to handler
switchTo(s, id) ==
  LET s1 == [s EXCEPT !.current = id]
  IN IF id \notin DOMAIN s.nodes THEN Throw(s1)
     ELSE LET n1 == [s.nodes EXCEPT ![id].unread = FALSE]
              s2 == [s1 EXCEPT !.nodes = n1]
          IN IF ~ChainOK(n1, id) THEN Throw(s2)
             ELSE LET anc == Range(ancestors(n1, id))
                      n2 == [k \in DOMAIN n1 |->
                               IF k \in anc THEN [n1[k] EXCEPT !.collapsed = FALSE]
                               ELSE n1[k]]
                  IN setValue([s2 EXCEPT !.nodes = n2], fullText(n2, id))

\* ------------------------------------------------------------- traversal
\* the loom:switch-to handler with the stamp it puts on the node: lv gives
\* the lastVisited of every node (0 for a node that has none), now is the
\* value of Date.now()
visit(s, lv, id, now) ==
  [st |-> switchTo(s, id),
   lv |-> IF id \in DOMAIN s.nodes THEN [lv EXCEPT ![id] = now] ELSE lv]

\* the switch-to-parent command (offered when current has a parent)
switchToParent(s, lv, now) ==
  IF s.current \notin DOMAIN s.nodes THEN [st |-> Throw(s), lv |-> lv]
  ELSE IF s.nodes[s.current].parentId = Null THEN [st |-> s, lv |-> lv]
  ELSE visit(s, lv, s.nodes[s.current].parentId, now)

switchToFirstChild(s, lv, now) ==
  LET children == childrenOf(s.nodes, s.current)
  IN IF Len(children) > 0 THEN visit(s, lv, children[1], now)
     ELSE [st |-> s, lv |-> lv]

\* the switch-to-child command: the children of current sorted by descending
\* lastVisited || 0 (the sort keeps children of equal lastVisited in the
\* order of Object.entries), the first of them switched to
switchToChild(s, lv, now) ==
  LET children == childrenOf(s.nodes, s.current)
  IN IF Len(children) > 0
     THEN LET first == CHOOSE k \in 1..Len(children) :
                         /\ \A j \in 1..Len(children) : lv[children[j]] <= lv[children[k]]
                         /\ \A j \in 1..(k - 1) : lv[children[j]] < lv[children[k]]
          IN visit(s, lv, children[first], now)
     ELSE [st |-> s, lv |-> lv]

\* ---------------------------------------------------- structural mutator
RECURSIVE locate(_, _, _)
\* the cursor walk of breakAtPoint: the 1-based index n of the family member
\* the cursor is in and the offset i inside it; n = 0 when the cursor is at
\* the end of the last member
locate(familyTexts, i, n) ==
  IF i < Len(familyTexts[n]) THEN [n |-> n, i |-> i]
  ELSE IF n = Len(familyTexts) THEN [n |-> 0, i |-> 0]
  ELSE locate(familyTexts, i - Len(familyTexts[n]), n + 1)

\* a breakAtPoint that leaves the children of the split node under it
breakAtPointKeepChildren(s, cursorPos) ==
  IF ~ChainOK(s.nodes, s.current)
  THEN [st |-> Throw(s), res |-> <<Undef, Undef>>, ok |-> FALSE]
  ELSE
    LET fam == family(s.nodes, s.current)
        familyTexts == [k \in 1..Len(fam) |-> s.nodes[fam[k]].text]
        at == locate(familyTexts, cursorPos, 1)
    IN IF at.n = 0
       THEN [st |-> s, res |-> <<s.current, Null>>, ok |-> TRUE]
       ELSE
         LET parentNode == fam[at.n]
             parentNodeText == familyTexts[at.n]
             before == substring(parentNodeText, 0, at.i)
             after == substringFrom(parentNodeText, at.i)
             childId == s.nextId
             n1 == [k \in DOMAIN s.nodes \cup {childId} |->
                      IF k = childId THEN newNode(after, parentNode, FALSE)
                      ELSE IF k = parentNode THEN [s.nodes[k] EXCEPT !.text = before]
                      ELSE s.nodes[k]]
         IN [st |-> [s EXCEPT !.nodes = n1, !.nextId = childId + 1],
             res |-> <<parentNode, childId>>, ok |-> TRUE]

\* a breakAtPoint that collects the children of the split node after the new
\* node is in the map, so that the new node is reparented with them
breakAtPointChildrenAfterInsert(s, cursorPos) ==
  IF ~ChainOK(s.nodes, s.current)
  THEN [st |-> Throw(s), res |-> <<Undef, Undef>>, ok |-> FALSE]
  ELSE
    LET fam == family(s.nodes, s.current)
        familyTexts == [k \in 1..Len(fam) |-> s.nodes[fam[k]].text]
        at == locate(familyTexts, cursorPos, 1)
    IN IF at.n = 0
       THEN [st |-> s, res |-> <<s.current, Null>>, ok |-> TRUE]
       ELSE
         LET parentNode == fam[at.n]
             parentNodeText == familyTexts[at.n]
             before == substring(parentNodeText, 0, at.i)
             after == substringFrom(parentNodeText, at.i)
             childId == s.nextId
             children == {c \in DOMAIN s.nodes : s.nodes[c].parentId = parentNode}
                           \cup {childId}
             n1 == [k \in DOMAIN s.nodes \cup {childId} |->
                      IF k = childId THEN newNode(after, childId, FALSE)
                      ELSE IF k = parentNode THEN [s.nodes[k] EXCEPT !.text = before]
                      ELSE IF k \in children THEN [s.nodes[k] EXCEPT !.parentId = childId]
                      ELSE s.nodes[k]]
         IN [st |-> [s EXCEPT !.nodes = n1, !.nextId = childId + 1],
             res |-> <<parentNode, childId>>, ok |-> TRUE]

\* breakAtPoint(file) with the cursor at offset cursorPos of the buffer;
\* res is the returned pair, ok is FALSE when the call throws
breakAtPoint(s, cursorPos) ==
  IF ~ChainOK(s.nodes, s.current)
  THEN [st |-> Throw(s), res |-> <<Undef, Undef>>, ok |-> FALSE]
  ELSE
    LET fam == family(s.nodes, s.current)
        familyTexts == [k \in 1..Len(fam) |-> s.nodes[fam[k]].text]
        at == locate(familyTexts, cursorPos, 1)
    IN IF at.n = 0
       THEN [st |-> s, res |-> <<s.current, Null>>, ok |-> TRUE]
       ELSE
         LET parentNode == fam[at.n]
             parentNodeText == familyTexts[at.n]
             before == substring(parentNodeText, 0, at.i)
             after == substringFrom(parentNodeText, at.i)
             children == {c \in DOMAIN s.nodes : s.nodes[c].parentId = parentNode}
             childId == s.nextId
             n1 == [k \in DOMAIN s.nodes \cup {childId} |->
                      IF k = childId THEN newNode(after, parentNode, FALSE)
                      ELSE IF k = parentNode THEN [s.nodes[k] EXCEPT !.text = before]
                      ELSE IF k \in children THEN [s.nodes[k] EXCEPT !.parentId = childId]
                      ELSE s.nodes[k]]
         IN [st |-> [s EXCEPT !.nodes = n1, !.nextId = childId + 1],
             res |-> <<parentNode, childId>>, ok |-> TRUE]

\* breakAtPoint() of the second LoomPlugin class of src/main.ts, with the
\* cursor at offset cursorPos of the buffer; res is the returned value: Null
\* at the beginning of a node, the current id at the end of the last node,
\* else the id of the node that was split
breakAtPoint2(s, cursorPos) ==
  IF ~ChainOK(s.nodes, s.current)
  THEN [st |-> Throw(s), res |-> Undef, ok |-> FALSE]
  ELSE
    LET fam == family(s.nodes, s.current)
        familyTexts == [k \in 1..Len(fam) |-> s.nodes[fam[k]].text]
        at == locate(familyTexts, cursorPos, 1)
        end == at.n = 0
        n == IF end THEN Len(fam) ELSE at.n
        i == IF end THEN cursorPos - Len(join(SubSeq(familyTexts, 1, Len(fam) - 1)))
             ELSE at.i
    IN IF i = 0 THEN [st |-> s, res |-> Null, ok |-> TRUE]
       ELSE IF end THEN [st |-> s, res |-> s.current, ok |-> TRUE]
       ELSE
         LET inRangeNode == fam[n]
             inRangeNodeText == familyTexts[n]
             before == substring(inRangeNodeText, 0, i)
             after == substringFrom(inRangeNodeText, i)
             children == {c \in DOMAIN s.nodes : s.nodes[c].parentId = inRangeNode}
             afterId == s.nextId
             n1 == [k \in DOMAIN s.nodes \cup {afterId} |->
                      IF k = afterId THEN newNode(after, inRangeNode, FALSE)
                      ELSE IF k = inRangeNode THEN [s.nodes[k] EXCEPT !.text = before]
                      ELSE IF k \in children THEN [s.nodes[k] EXCEPT !.parentId = afterId]
                      ELSE s.nodes[k]]
         IN [st |-> [s EXCEPT !.nodes = n1, !.nextId = afterId + 1],
             res |-> inRangeNode, ok |-> TRUE]

\* a canMerge without the count of the siblings
canMergeWithSiblings(ns, id) == ns[id].parentId \notin {Null, Undef}

\* canMerge(state, id, false); id is in the node map
canMerge(ns, id) ==
  LET parentId == ns[id].parentId
  IN /\ parentId \notin {Null, Undef}
     /\ Cardinality({k \in DOMAIN ns : ns[k].parentId = parentId}) <= 1

\* a canDelete without the test for the last root node
canDeleteAnyNode(ns, id) == TRUE

\* canDelete(state, id, false)
canDelete(ns, id) ==
  LET rootNodes == childrenOf(ns, Null)
  IN ~(Len(rootNodes) = 1 /\ rootNodes[1] = id)

\* a `deleted` list without the addChildren pass
closureIdsOnly(ns, S) == S

RECURSIVE closure(_, _)
\* `deleted` of the loom:delete handler: ids and everything addChildren reaches
closure(ns, S) ==
  LET more == S \cup {k \in DOMAIN ns : ns[k].parentId \in S}
  IN IF more = S THEN S ELSE closure(ns, more)

RECURSIVE ancestorWalk(_, _, _, _)
\* the "closest ancestor" loop of the loom:delete handler, started at a:
\* "found" with the first ancestor outside `deleted`, "none" when the loop
\* ends without one, "throw" when it dereferences a missing node
ancestorWalk(ns, a, deleted, fuel) ==
  IF a = Null \/ fuel = 0 THEN [kind |-> "none", id |-> Null]
  ELSE IF a \notin deleted THEN [kind |-> "found", id |-> a]
  ELSE IF a \notin DOMAIN ns THEN [kind |-> "throw", id |-> a]
  ELSE ancestorWalk(ns, ns[a].parentId, deleted, fuel - 1)

IndexOf(q, x) == CHOOSE k \in 1..Len(q) : q[k] = x

\* the part of the loom:delete handler that moves `current` out of
\* `deleted`; ok is FALSE when it throws
fallback(s, deleted) ==
  IF s.current \notin DOMAIN s.nodes THEN [st |-> Throw(s), ok |-> FALSE]
  ELSE
    LET parentId == s.nodes[s.current].parentId
        siblings == childrenOf(s.nodes, parentId)
    IN IF \E k \in 1..Len(siblings) : siblings[k] \notin deleted
       THEN LET index == IndexOf(siblings, s.current) - 1
                nextSibling == siblings[((index + 1) % Len(siblings)) + 1]
            IN [st |-> switchTo(s, nextSibling), ok |-> TRUE]
       ELSE LET a == ancestorWalk(s.nodes, parentId, deleted, Fuel(s.nodes))
                rootNodes == SelectSeq(childrenOf(s.nodes, Null),
                                       LAMBDA r : r \notin deleted)
            IN IF a.kind = "throw" THEN [st |-> Throw(s), ok |-> FALSE]
               ELSE IF a.kind = "found" THEN [st |-> switchTo(s, a.id), ok |-> TRUE]
               ELSE IF Len(rootNodes) > 0
                    THEN [st |-> switchTo(s, rootNodes[1]), ok |-> TRUE]
                    ELSE [st |-> s, ok |-> TRUE]

\* the loom:delete handler
delete(s, ids0) ==
  LET ids == SelectSeq(ids0, LAMBDA i : canDelete(s.nodes, i))
  IN IF Len(ids) = 0 THEN s
     ELSE
       LET s1 == [s EXCEPT !.hoisted = SelectSeq(s.hoisted, LAMBDA h : h \notin Range(ids))]
           deleted == closure(s.nodes, Range(ids))
           f == IF s.current \in deleted THEN fallback(s1, deleted)
                ELSE [st |-> s1, ok |-> TRUE]
       IN IF ~f.ok THEN f.st
          ELSE [f.st EXCEPT !.nodes = [k \in DOMAIN f.st.nodes \ deleted |-> f.st.nodes[k]]]

\* a merge-with-parent handler that leaves the children of id where they are
mergeWithParentKeepChildren(s, id) ==
  IF ~canMerge(s.nodes, id) THEN s
  ELSE
    LET parentId == s.nodes[id].parentId
    IN IF parentId \notin DOMAIN s.nodes THEN Throw(s)
       ELSE
         LET n1 == [s.nodes EXCEPT ![parentId].text = s.nodes[parentId].text \o s.nodes[id].text]
         IN delete(switchTo([s EXCEPT !.nodes = n1], parentId), <<id>>)

\* the loom:merge-with-parent handler; id is in the node map
mergeWithParent(s, id) ==
  IF ~canMerge(s.nodes, id) THEN s
  ELSE
    LET parentId == s.nodes[id].parentId
    IN IF parentId \notin DOMAIN s.nodes THEN Throw(s)
       ELSE
         LET n1 == [k \in DOMAIN s.nodes |->
                      IF k = parentId
                      THEN [s.nodes[k] EXCEPT !.text = s.nodes[parentId].text \o s.nodes[id].text]
                      ELSE IF s.nodes[k].parentId = id
                      THEN [s.nodes[k] EXCEPT !.parentId = parentId]
                      ELSE s.nodes[k]]
         IN delete(switchTo([s EXCEPT !.nodes = n1], parentId), <<id>>)

\* attach a fresh node and switch to it (create-child, create-sibling, clone)
addAndSwitch(s, node) ==
  switchTo([s EXCEPT !.nodes = [k \in DOMAIN s.nodes \cup {s.nextId} |->
                                  IF k = s.nextId THEN node ELSE s.nodes[k]],
                     !.nextId = s.nextId + 1],
           s.nextId)

\* the loom:create-child handler
createChild(s, id) == addAndSwitch(s, newNode(<<>>, id, FALSE))

\* the loom:create-sibling handler
createSibling(s, id) ==
  IF id \notin DOMAIN s.nodes THEN Throw(s)
  ELSE addAndSwitch(s, newNode(<<>>, s.nodes[id].parentId, FALSE))

cloneEmpty(s, id) == createSibling(s, id)

\* a clone that takes the children of the cloned node with it
cloneWithChildren(s, id) ==
  IF id \notin DOMAIN s.nodes THEN Throw(s)
  ELSE addAndSwitch([s EXCEPT !.nodes = [k \in DOMAIN s.nodes |->
                                           IF s.nodes[k].parentId = id
                                           THEN [s.nodes[k] EXCEPT !.parentId = s.nextId]
                                           ELSE s.nodes[k]]],
                    newNode(s.nodes[id].text, s.nodes[id].parentId, FALSE))

\* the loom:clone handler
clone(s, id) ==
  IF id \notin DOMAIN s.nodes THEN Throw(s)
  ELSE addAndSwitch(s, newNode(s.nodes[id].text, s.nodes[id].parentId, FALSE))

\* ------------------------------------------------------- import / export
\* the properties of an object that JSON.stringify writes: those whose value
\* is not undefined; ids names the properties that hold an id (a string, null
\* or undefined), the others hold texts, flags and containers
jsonObject(obj, ids) ==
  [k \in {k \in DOMAIN obj : ~(k \in ids /\ obj[k] = Undef)} |-> obj[k]]

\* the value read from property k of a parsed object: undefined when the
\* property is absent
jsonGet(obj, k) == IF k \in DOMAIN obj THEN obj[k] ELSE Undef

\* JSON.stringify(this.state[file.path]) of the loom:export handler; gen is
\* state.generating
stringify(s, gen) ==
  jsonObject([current |-> s.current,
              hoisted |-> s.hoisted,
              generating |-> gen,
              nodes |-> [k \in DOMAIN s.nodes |->
                           jsonObject([text |-> s.nodes[k].text,
                                       parentId |-> s.nodes[k].parentId,
                                       collapsed |-> s.nodes[k].collapsed,
                                       unread |-> s.nodes[k].unread],
                                      {"parentId"})]],
             {"current", "generating"})

\* JSON.parse of an exported file, read back as a NoteState
parse(json) ==
  [current |-> jsonGet(json, "current"),
   hoisted |-> jsonGet(json, "hoisted"),
   generating |-> jsonGet(json, "generating"),
   nodes |-> [k \in DOMAIN json.nodes |->
                [text |-> jsonGet(json.nodes[k], "text"),
                 parentId |-> jsonGet(json.nodes[k], "parentId"),
                 collapsed |-> jsonGet(json.nodes[k], "collapsed"),
                 unread |-> jsonGet(json.nodes[k], "unread")]]]

\* the loom:import handler on the parsed file data: the state of the
\* document is replaced, then loom:switch-to runs on data.current; gen is the
\* new state.generating
import(s, data) ==
  [st |-> switchTo([s EXCEPT !.nodes = data.nodes, !.current = data.current,
                             !.hoisted = data.hoisted],
                   data.current),
   gen |-> data.generating]

\* ------------------------------------------------------------------ search
\* the states a node's searchResultState takes; "null" stands for null
SearchStates == {"null", "result", "ancestor", "none"}

\* the search state of a document in which nothing has been searched for
noSearch(ns) == [k \in DOMAIN ns |-> "null"]

toLowerCaseSame(t) == t

\* String.prototype.toLowerCase
toLowerCase(t) == [k \in 1..Len(t) |-> IF t[k] = "A" THEN "a" ELSE t[k]]

\* String.prototype.includes
includes(t, p) == \E k \in 0..(Len(t) - Len(p)) : SubSeq(t, k + 1, k + Len(p)) = p

RECURSIVE searchWalk(_, _, _)
\* the while loop of loom:search that collects the ancestors of a match:
\* every parentId met until null; the walk fails when it dereferences a
\* missing node (or never ends)
searchWalk(ns, parentId, fuel) ==
  IF parentId = Null THEN [ids |-> {}, ok |-> TRUE]
  ELSE IF parentId \notin DOMAIN ns \/ fuel = 0 THEN [ids |-> {parentId}, ok |-> FALSE]
  ELSE LET r == searchWalk(ns, ns[parentId].parentId, fuel - 1)
       IN [ids |-> {parentId} \cup r.ids, ok |-> r.ok]

searchKeepStates(s, srs, term) == [st |-> s, srs |-> srs, searchTerm |-> term]

\* the loom:search handler; srs is the searchResultState of every node before
\* the call, the result holds the handler state, the searchResultState of
\* every node and state.searchTerm after it
search(s, srs, term) ==
  IF term = <<>>
  THEN [st |-> s, srs |-> [k \in DOMAIN s.nodes |-> "null"], searchTerm |-> term]
  ELSE LET matches == {k \in DOMAIN s.nodes :
                         includes(toLowerCase(s.nodes[k].text), toLowerCase(term))}
           walks == [k \in matches |-> searchWalk(s.nodes, s.nodes[k].parentId, Fuel(s.nodes))]
           found == UNION {walks[k].ids : k \in matches}
       IN IF \E k \in matches : ~walks[k].ok
          THEN [st |-> Throw(s), srs |-> srs, searchTerm |-> term]
          ELSE [st |-> s,
                srs |-> [k \in DOMAIN s.nodes |->
                           IF k \in matches THEN "result"
                           ELSE IF k \in found THEN "ancestor"
                           ELSE "none"],
                searchTerm |-> term]

\* --------------------------------------------------- completion dispatcher
\* a completion the provider reports as null
NullCompletion == <<"null">>

\* what a provider may answer for one completion
RawCompletions == {NullCompletion, <<"a">>, <<" ">>}

RECURSIVE escape(_)
\* completion.replace(/</g, "\\<").replace(/\[/g, "\\[")
escape(t) ==
  IF Len(t) = 0 THEN <<>>
  ELSE (IF Head(t) \in {"<", "["} THEN <<"\\", Head(t)>> ELSE <<Head(t)>>) \o escape(Tail(t))

\* a clean-up that never drops the leading space of a completion
cleanUpKeepSpace(raw, prov, trailingSpace) ==
  LET c1 == escape(IF raw = NullCompletion \/ Len(raw) = 0 THEN <<>> ELSE raw)
  IN IF prov \in ChatProviders /\ ~trailingSpace THEN <<" ">> \o c1 ELSE c1

\* a clean-up that separates a chat completion from the prompt only when the
\* completion does not start with a space itself
cleanUpNoDoubleSpace(raw, prov, trailingSpace) ==
  LET c1 == escape(IF raw = NullCompletion \/ Len(raw) = 0 THEN <<>> ELSE raw)
  IN IF prov \in ChatProviders
     THEN (IF ~trailingSpace /\ ~(Len(c1) > 0 /\ c1[1] = " ") THEN <<" ">> \o c1 ELSE c1)
     ELSE IF trailingSpace /\ Len(c1) > 0 /\ c1[1] = " " THEN Tail(c1) ELSE c1

\* the clean-up generate applies to one raw completion
cleanUp(raw, prov, trailingSpace) ==
  LET c0 == IF raw = NullCompletion \/ Len(raw) = 0 THEN <<>> ELSE raw
      c1 == escape(c0)
  IN IF prov \in ChatProviders
     THEN (IF ~trailingSpace THEN <<" ">> \o c1 ELSE c1)
     ELSE IF trailingSpace /\ Len(c1) > 0 /\ c1[1] = " " THEN Tail(c1) ELSE c1

\* the <|endoftext|> token generate puts in front of the prompt
EndOfText == "<|endoftext|>"

RECURSIVE stripTrailingWhitespace(_)
\* prompt.replace(/\s+$/, "")
stripTrailingWhitespace(t) ==
  IF endsWithWhitespace(t) THEN stripTrailingWhitespace(SubSeq(t, 1, Len(t) - 1)) ELSE t

RECURSIVE unescape(_)
\* prompt.replace(/\\</g, "<").replace(/\\\[/g, "[")
unescape(t) ==
  IF Len(t) = 0 THEN <<>>
  ELSE IF Len(t) >= 2 /\ t[1] = "\\" /\ t[2] \in {"<", "["}
       THEN <<t[2]>> \o unescape(SubSeq(t, 3, Len(t)))
       ELSE <<Head(t)>> \o unescape(Tail(t))

\* the prompt generate(file, rootNode) hands to the provider method
prompt(ns, rootNode) ==
  unescape(stripTrailingWhitespace(<<EndOfText>> \o fullText(ns, rootNode)))

\* ------------------------------------------------------- prompt trimming
\* the keys of completionMethods
CompletionMethods ==
  {"cohere", "textsynth", "ocp", "openai", "openai-chat", "azure", "azure-chat"}

\* Array.prototype.slice(n)
slice(q, n) ==
  IF n < 0 THEN SubSeq(q, Max(Len(q) + n, 0) + 1, Len(q))
  ELSE SubSeq(q, Min(n, Len(q)) + 1, Len(q))

\* the token of a piece of text in the tokenizer's vocabulary
TokenIds == <<"a", " ", EndOfText>>

\* tokenizer.encode(prompt, { disallowedSpecial: new Set() })
encode(t) == [k \in 1..Len(t) |-> CHOOSE n \in 1..Len(TokenIds) : TokenIds[n] = t[k]]

\* tokenizer.decode(tokens)
decode(tokens) == [k \in 1..Len(tokens) |-> TokenIds[tokens[k]]]

\* trimOpenAIPrompt(prompt) under the settings contextLength and maxTokens
trimOpenAIPrompt(p, contextLength, maxTokens) ==
  decode(slice(encode(p), 0 - (contextLength - maxTokens)))

\* (await cohere.tokenize({ text: prompt })).body.token_strings
tokenize(p) == [k \in 1..Len(p) |-> <<p[k]>>]

\* the prompt completeCohere sends
trimCoherePrompt(p, contextLength) == join(slice(tokenize(p), 0 - contextLength))

\* the prompt the completion method of provider prov puts in its request
handed(prov, p, contextLength, maxTokens) ==
  IF prov = "cohere" THEN trimCoherePrompt(p, contextLength)
  ELSE IF prov = "textsynth" THEN p
  ELSE trimOpenAIPrompt(p, contextLength, maxTokens)

\* generate(file, rootNode) up to its await, entered with handler state s;
\* the suspended activation keeps its argument rootNode and its local
\* trailingSpace; focus notes whether state.current at the call was rootNode
\* or a descendant of it
generateStart(s, rootNode) ==
  /\ generating' = rootNode
  /\ IF rootNode # Null /\ rootNode # Undef /\ ~ChainOK(s.nodes, rootNode)
     THEN /\ Commit(Throw(s))
          /\ inflight' = inflight
     ELSE /\ Commit(s)
          /\ inflight' = Append(inflight,
               [root |-> rootNode,
                focus |-> inSubtree(s.nodes, s.current, rootNode),
                trailingSpace |-> endsWithWhitespace(fullText(s.nodes, rootNode))])
  /\ UNCHANGED provider

\* the node map after generate attached `completions` under `parent`
attach(ns, first, parent, completions) ==
  [k \in DOMAIN ns \cup (first..(first + Len(completions) - 1)) |->
     IF k \in DOMAIN ns THEN ns[k]
     ELSE newNode(completions[k - first + 1], parent, TRUE)]

RemoveAt(q, i) == SubSeq(q, 1, i - 1) \o SubSeq(q, i + 1, Len(q))

\* ---------------------------------------------------------------- actions
Init ==
  \E text \in TextsUpTo(MaxLen) :
    /\ nodes = (1 :> newNode(text, Null, FALSE))
    /\ current = 1
    /\ hoisted = <<>>
    /\ generating = Null
    /\ buffer = text
    /\ nextId = 2
    /\ inflight = <<>>
    /\ provider = DefaultProvider

NoGen == UNCHANGED <<generating, inflight, provider>>

\* nodes a command can be invoked on: any node through the tree pane,
\* state.current through the hotkeys
Targets == DOMAIN nodes \cup {current}

\* the user changes the buffer to text
EditorChange(text) ==
  /\ text # buffer
  /\ Commit(editorChange([St EXCEPT !.buffer = text], text))
  /\ NoGen

SwitchTo(id) ==
  /\ Commit(switchTo(St, id))
  /\ NoGen

CreateChild(id) ==
  /\ nextId <= MaxId
  /\ Commit(createChild(St, id))
  /\ NoGen

CreateSibling(id) ==
  /\ nextId <= MaxId
  /\ Commit(createSibling(St, id))
  /\ NoGen

Clone ==
  /\ nextId <= MaxId
  /\ Commit(clone(St, current))
  /\ NoGen

BreakAtPoint(cursorPos) ==
  /\ nextId <= MaxId
  /\ LET r == breakAtPoint(St, cursorPos)
     IN IF r.ok /\ r.res[2] # Null THEN Commit(switchTo(r.st, r.res[2]))
        ELSE Commit(r.st)
  /\ NoGen

BreakAtPointCreateChild(cursorPos) ==
  /\ nextId + 1 <= MaxId
  /\ LET r == breakAtPoint(St, cursorPos)
     IN IF r.ok THEN Commit(addAndSwitch(r.st, newNode(<<>>, r.res[1], FALSE)))
        ELSE Commit(r.st)
  /\ NoGen

MergeWithParent(id) ==
  /\ Commit(mergeWithParent(St, id))
  /\ NoGen

\* the loom:delete event with the list ids
DeleteIds(ids) ==
  /\ NoGen
  /\ Commit(delete(St, ids))

\* a sibling list without the `id_ !== id` test: id is handed over too
siblingsToClearWithSelf(ns, id) == childrenOf(ns, ns[id].parentId)

\* the ids loom:clear-siblings hands to loom:delete
siblingsToClear(ns, id) ==
  SelectSeq(childrenOf(ns, ns[id].parentId), LAMBDA k : k # id)

Delete(id) == DeleteIds(<<id>>)

ClearChildren(id) == DeleteIds(childrenOf(nodes, id))

ClearSiblings(id) ==
  IF id \notin DOMAIN nodes THEN NoGen /\ Commit(Throw(St))
  ELSE DeleteIds(siblingsToClear(nodes, id))

\* the loom:hoist handler: id is pushed on the hoist stack
hoist(s, id) == [s EXCEPT !.hoisted = Append(s.hoisted, id)]

\* the loom:hoist event, offered by the tree pane on a node that is not the
\* top of the hoist stack
Hoist(id) ==
  /\ Len(hoisted) < MaxHoist
  /\ IF Len(hoisted) = 0 THEN TRUE ELSE hoisted[Len(hoisted)] # id
  /\ hoisted' = hoist(St, id).hoisted
  /\ UNCHANGED <<nodes, current, buffer, nextId>>
  /\ NoGen

\* the loom:unhoist event
Unhoist ==
  /\ Len(hoisted) > 0
  /\ hoisted' = SubSeq(hoisted, 1, Len(hoisted) - 1)
  /\ UNCHANGED <<nodes, current, buffer, nextId>>
  /\ NoGen

\* complete(file) with the cursor at cursorPos
Complete(cursorPos) ==
  /\ Len(inflight) < MaxInflight
  /\ nextId <= MaxId
  /\ LET r == breakAtPoint(St, cursorPos)
     IN IF r.ok THEN generateStart(r.st, r.st.current)
        ELSE Commit(r.st) /\ NoGen

GenerateSiblings ==
  /\ Len(inflight) < MaxInflight
  /\ IF current \notin DOMAIN nodes THEN Commit(Throw(St)) /\ NoGen
     ELSE generateStart(St, nodes[current].parentId)

\* a generate without the early returns of its error paths: a failed call
\* is carried on with as an answer of no completions
generateResumeNoErrorReturn(s, gen, req, prov, result) ==
  LET raw == IF result.kind = "ok" THEN result.completions ELSE <<>>
  IN
    LET completions == [k \in 1..Len(raw) |->
                          cleanUp(raw[k], prov, req.trailingSpace)]
        n1 == attach(s.nodes, s.nextId, gen, completions)
        s1 == [s EXCEPT !.nodes = n1, !.nextId = s.nextId + Len(completions)]
        first == IF Len(completions) > 0 THEN s.nextId ELSE Undef
    IN [st |-> switchTo(s1, first), gen |-> Null]

\* generate(file, rootNode) from the return of its provider call: req is the
\* suspended activation, gen is state.generating, result the CompletionResult
\* (or the exception) the call ended with; gen in the result is the new
\* state.generating
generateResume(s, gen, req, prov, result) ==
  IF result.kind # "ok" THEN [st |-> s, gen |-> gen]
  ELSE
    LET completions == [k \in 1..Len(result.completions) |->
                          cleanUp(result.completions[k], prov, req.trailingSpace)]
        n1 == attach(s.nodes, s.nextId, gen, completions)
        s1 == [s EXCEPT !.nodes = n1, !.nextId = s.nextId + Len(completions)]
        first == IF Len(completions) > 0 THEN s.nextId ELSE Undef
    IN [st |-> switchTo(s1, first), gen |-> Null]

Resume(i, result) ==
  LET r == generateResume(St, generating, inflight[i], provider, result)
  IN /\ Commit(r.st)
     /\ generating' = r.gen
     /\ inflight' = RemoveAt(inflight, i)
     /\ UNCHANGED provider

\* the provider call of activation i returns { ok: true, completions: raw }
GenOk(i, raw) ==
  /\ nextId + Len(raw) - 1 <= MaxId
  /\ Resume(i, [kind |-> "ok", completions |-> raw])

\* the provider call of activation i returns { ok: false, status, message }
GenErr(i) == Resume(i, [kind |-> "err"])

\* the provider call of activation i throws
GenThrow(i) == Resume(i, [kind |-> "throw"])

Answers == UNION {[1..m -> RawCompletions] : m \in 0..MaxCompl}

Next ==
  \/ \E text \in TextsUpTo(MaxLen) : EditorChange(text)
  \/ \E id \in DOMAIN nodes : SwitchTo(id)
  \/ \E id \in Targets : CreateChild(id)
  \/ \E id \in Targets : CreateSibling(id)
  \/ Clone
  \/ \E c \in 0..Len(buffer) : BreakAtPoint(c)
  \/ \E c \in 0..Len(buffer) : BreakAtPointCreateChild(c)
  \/ \E id \in DOMAIN nodes : MergeWithParent(id)
  \/ \E id \in Targets : Delete(id)
  \/ \E id \in Targets : ClearChildren(id)
  \/ \E id \in Targets : ClearSiblings(id)
  \/ \E c \in 0..Len(buffer) : Complete(c)
  \/ GenerateSiblings
  \/ \E i \in 1..Len(inflight) : \E raw \in Answers : GenOk(i, raw)
  \/ \E i \in 1..Len(inflight) : GenErr(i)
  \/ \E i \in 1..Len(inflight) : GenThrow(i)

Spec == Init /\ [][Next]_vars

\* the structural commands and the buffer edits alone
NextTree ==
  \/ \E text \in TextsUpTo(MaxLen) : EditorChange(text)
  \/ \E id \in DOMAIN nodes : SwitchTo(id)
  \/ \E id \in Targets : CreateChild(id)
  \/ \E id \in Targets : CreateSibling(id)
  \/ Clone
  \/ \E c \in 0..Len(buffer) : BreakAtPoint(c)
  \/ \E c \in 0..Len(buffer) : BreakAtPointCreateChild(c)
  \/ \E id \in DOMAIN nodes : MergeWithParent(id)
  \/ \E id \in Targets : Delete(id)
  \/ \E id \in Targets : ClearChildren(id)
  \/ \E id \in Targets : ClearSiblings(id)

SpecTree == Init /\ [][NextTree]_vars

\* the structural commands and the buffer edits together with the hoist stack
NextHoist ==
  \/ \E text \in TextsUpTo(MaxLen) : EditorChange(text)
  \/ \E id \in DOMAIN nodes : SwitchTo(id)
  \/ \E id \in Targets : CreateChild(id)
  \/ \E id \in Targets : CreateSibling(id)
  \/ Clone
  \/ \E c \in 0..Len(buffer) : BreakAtPoint(c)
  \/ \E c \in 0..Len(buffer) : BreakAtPointCreateChild(c)
  \/ \E id \in DOMAIN nodes : MergeWithParent(id)
  \/ \E id \in Targets : Delete(id)
  \/ \E id \in Targets : ClearChildren(id)
  \/ \E id \in Targets : ClearSiblings(id)
  \/ \E id \in DOMAIN nodes : Hoist(id)
  \/ Unhoist

SpecHoist == Init /\ [][NextHoist]_vars

\* the node maps over the ids 1..n with texts of length at most MaxText and
\* any collapsed and unread flags, whose parentId links all lead to a root
Documents(n) ==
  {ns \in [1..n -> [text : TextsUpTo(MaxText), parentId : {Null} \cup (1..n),
                    collapsed : BOOLEAN, unread : BOOLEAN]] :
     \A k \in 1..n : ChainOK(ns, k)}

\* the state in which a note with a saved tree is opened: any document, any
\* of its nodes current (a node becomes current through loom:switch-to, which
\* clears its unread flag), the buffer holding the text of the active path
InitDoc ==
  \E n \in 1..MaxDocNodes : \E ns \in Documents(n) : \E cur \in 1..n :
    /\ ~ns[cur].unread
    /\ nodes = ns
    /\ current = cur
    /\ hoisted = <<>>
    /\ generating = Null
    /\ buffer = fullText(ns, cur)
    /\ nextId = n + 1
    /\ inflight = <<>>
    /\ provider = DefaultProvider

\* the structural commands and the buffer edits on an opened document
SpecDoc == InitDoc /\ [][NextTree]_vars

\* ------------------------------------------------------------------ claims

\* C1: the concatenation of the node texts along the root-to-current chain
\* equals the host buffer (stated for the states whose current chain resolves).
C1_BufferSync == ChainOK(nodes, current) => fullText(nodes, current) = buffer

\* C2: in every reachable state current is the id of a node of the document.
C2_CurrentExists == current \in DOMAIN nodes

\* every parentId that is not null is the id of a node of the document
ParentsResolve(ns) ==
  \A k \in DOMAIN ns : ns[k].parentId # Null => ns[k].parentId \in DOMAIN ns

\* C3: every node whose parentId is not null has a parentId that is the id of
\* a node of the document; stated as preserved by every step taken from a
\* state in which it holds and current exists.
C3_ParentsResolve ==
  [][(ParentsResolve(nodes) /\ current \in DOMAIN nodes) => ParentsResolve(nodes')]_vars

Added == DOMAIN nodes' \ DOMAIN nodes

\* C5: when the provider call of a request started for root R returns Ok with
\* m completions, exactly m nodes are added, each a child of R and created
\* unread (the one the pipeline then switches to is read by that switch).
C5_ChildrenOfRequestRoot ==
  [][\A i \in 1..Len(inflight) : \A raw \in Answers :
       GenOk(i, raw) =>
         /\ Cardinality(Added) = Len(raw)
         /\ \A k \in Added : /\ nodes'[k].parentId = inflight[i].root
                             /\ (k # current' => nodes'[k].unread)]_vars

\* C6: when the root of an outstanding generation has been deleted, the return
\* of the provider call (here with at least one completion) adds no node,
\* leaves current alone and raises no error.
C6_StaleRootDiscarded ==
  [][\A i \in 1..Len(inflight) : \A raw \in Answers :
       (/\ Len(raw) > 0
        /\ GenOk(i, raw)
        /\ inflight[i].root \notin {Null, Undef}
        /\ inflight[i].root \notin DOMAIN nodes) =>
         /\ Added = {}
         /\ current' = current
         /\ ~generateResume(St, generating, inflight[i], provider,
                            [kind |-> "ok", completions |-> raw]).st.thrown]_vars

C8_FailureChangesNothing ==
  [][\A i \in 1..Len(inflight) :
       (GenErr(i) \/ GenThrow(i)) =>
         (nodes' = nodes /\ current' = current /\ buffer' = buffer)]_vars

\* C8 witness: a provider call made for an existing node of a document with
\* several nodes has returned without completions being attached (the request
\* is gone and the tree is as the request left it).
C8_Witness ==
  /\ Len(inflight) = 0
  /\ generating \in DOMAIN nodes
  /\ ChainOK(nodes, generating)
  /\ Cardinality(DOMAIN nodes) >= 2

\* C9: once the provider call of every started generation has returned, with
\* completions, with an error result or by throwing, generating is null again.
C9_IdleWhenNothingOutstanding == Len(inflight) = 0 => generating = Null

\* the ids of ids0 that are not the only root of the document
Accepted(ns, ids0) ==
  {i \in Range(ids0) :
     ~(ns[i].parentId = Null /\ \A k \in DOMAIN ns : ns[k].parentId = Null => k = i)}

\* S and every node that has a member of S among its ancestors
WithDescendants(ns, S) ==
  S \cup {k \in DOMAIN ns : \E a \in S : a \in Range(Chain(ns, k, Fuel(ns)))}

\* what C10 requires of a delete(ids0) step
DeleteFrame(ids0) ==
  LET gone == WithDescendants(nodes, Accepted(nodes, ids0))
  IN /\ DOMAIN nodes' = DOMAIN nodes \ gone
     /\ \A k \in DOMAIN nodes' : /\ nodes'[k].text = nodes[k].text
                                 /\ nodes'[k].parentId = nodes[k].parentId

\* the id lists the commands of the document can hand to loom:delete: one
\* node (Delete), the children of a node (ClearChildren), the other children
\* of a node's parent (ClearSiblings)
DeleteRequests ==
  {<<id>> : id \in DOMAIN nodes}
    \cup {childrenOf(nodes, id) : id \in DOMAIN nodes}
    \cup {siblingsToClear(nodes, id) : id \in DOMAIN nodes}

\* C10: delete(ids) removes exactly the accepted ids and their descendants, as
\* they stand in the tree before the delete; every other node stays, with its
\* text and parentId unchanged.
C10_DeleteRemovesClosure ==
  [][\A ids \in DeleteRequests : DeleteIds(ids) => DeleteFrame(ids)]_vars

\* C10 witness: at least two of the ids handed out are gone from the map (a
\* node deleted with a descendant, or several deletes) and the current node
\* is among the nodes that remain.
C10_Witness ==
  /\ Cardinality(DOMAIN nodes) + 2 <= nextId - 1
  /\ current \in DOMAIN nodes

\* the siblings of current in the order "after current, wrapping": the ones
\* behind current's position first, then the ones in front of it
SiblingsAfterCurrent ==
  LET siblings == childrenOf(nodes, nodes[current].parentId)
      index == IndexOf(siblings, current)
  IN SubSeq(siblings, index + 1, Len(siblings)) \o SubSeq(siblings, 1, index - 1)

\* what C11 requires of the current node after a delete(ids0) whose closure
\* holds current
FallbackChosen(ids0) ==
  LET gone == WithDescendants(nodes, Accepted(nodes, ids0))
      sibs == SelectSeq(SiblingsAfterCurrent, LAMBDA k : k \notin gone)
      ancs == SelectSeq(Tail(Chain(nodes, current, Fuel(nodes))),
                        LAMBDA k : k \notin gone)
      roots == {k \in DOMAIN nodes \ gone : nodes[k].parentId = Null}
  IN /\ current' \in DOMAIN nodes'
     /\ IF Len(sibs) > 0 THEN current' = sibs[1]
        ELSE IF Len(ancs) > 0 THEN current' = ancs[1]
        ELSE current' \in roots

\* C11: when a delete removes a closure that holds the current node, the new
\* current node survives the delete and is the next surviving sibling after
\* current (wrapping), else the nearest surviving ancestor, else a surviving
\* root.
C11_FallbackOrder ==
  [][\A ids \in DeleteRequests :
       (/\ DeleteIds(ids)
        /\ ParentsResolve(nodes)
        /\ current \in WithDescendants(nodes, Accepted(nodes, ids)) \cap DOMAIN nodes)
       => FallbackChosen(ids)]_vars

\* the id lists of one or two distinct existing nodes
IdLists ==
  {<<a>> : a \in DOMAIN nodes}
    \cup {p \in (DOMAIN nodes) \X (DOMAIN nodes) : p[1] # p[2]}

\* the root of the document when it has exactly one, else Null
SoleRoot ==
  LET rootNodes == childrenOf(nodes, Null)
  IN IF Len(rootNodes) = 1 THEN rootNodes[1] ELSE Null

\* C12: delete(ids) never removes the only root of the document: that id is
\* filtered out and the delete goes on for the other ids (their closure is
\* removed); when the only root is the only id given, nodes, current, hoisted
\* and the buffer stay as they are.
C12_SoleRootKept ==
  \A ids \in IdLists :
    SoleRoot \in Range(ids) =>
      LET r == delete(St, ids)
          others == Range(ids) \ {SoleRoot}
      IN /\ SoleRoot \in DOMAIN r.nodes
         /\ DOMAIN r.nodes = DOMAIN nodes \ WithDescendants(nodes, others)
         /\ ids = <<SoleRoot>> =>
              /\ r.nodes = nodes
              /\ r.current = current
              /\ r.hoisted = hoisted
              /\ r.buffer = buffer

\* C12 witness: a document whose only root is handed to delete together with
\* another node, and the delete removes something.
C12_Witness ==
  \E ids \in IdLists :
    /\ SoleRoot \in Range(ids)
    /\ DOMAIN delete(St, ids).nodes # DOMAIN nodes

\* C13: every entry of the hoist stack is the id of an existing node; a
\* delete leaves no entry for a node it removed, descendants included.
C13_HoistedExist == \A k \in 1..Len(hoisted) : hoisted[k] \in DOMAIN nodes

\* the buffer offsets that fall strictly inside the text of a node of the
\* active path: j is the position of the node in family(current), o the
\* offset inside its text
InsidePoints ==
  LET fam == family(nodes, current)
  IN {p \in (1..Len(fam)) \X (1..MaxText) : p[2] < Len(nodes[fam[p[1]]].text)}

\* what C14 requires of breakAtPoint at offset o of the j-th node of the
\* active path
SplitInside(j, o) ==
  LET fam == family(nodes, current)
      n == fam[j]
      text == nodes[n].text
      before == join([k \in 1..(j - 1) |-> nodes[fam[k]].text])
      r == breakAtPoint(St, Len(before) + o)
      new == nextId
      after == r.st.nodes
  IN /\ r.ok
     /\ r.res = <<n, new>>
     /\ DOMAIN after = DOMAIN nodes \cup {new}
     /\ new \notin DOMAIN nodes
     /\ after[n].text = SubSeq(text, 1, o)
     /\ after[n].parentId = nodes[n].parentId
     /\ after[new].text = SubSeq(text, o + 1, Len(text))
     /\ after[new].parentId = n
     /\ \A k \in DOMAIN nodes \ {n} :
          /\ after[k].text = nodes[k].text
          /\ after[k].parentId = IF nodes[k].parentId = n THEN new ELSE nodes[k].parentId
     /\ fullText(after, new) = fullText(nodes, n)

\* C14: breakAtPoint with the cursor strictly inside the text of a node n of
\* the active path cuts n's text at the cursor, keeps the first part in n,
\* creates one node with the second part and parentId n, moves every former
\* child of n under the new node, and the new node's fullText is n's fullText
\* of before the split.
C14_SplitInside ==
  ChainOK(nodes, current) => \A p \in InsidePoints : SplitInside(p[1], p[2])

\* C14 witness: a node that has a child is about to be split strictly inside
\* its text, and the split moves the child under the new node.
C14_Witness ==
  /\ ChainOK(nodes, current)
  /\ nextId <= MaxId
  /\ \E p \in InsidePoints :
       LET n == family(nodes, current)[p[1]]
       IN /\ \E k \in DOMAIN nodes : nodes[k].parentId = n
          /\ SplitInside(p[1], p[2])

\* the text of the active path in front of its j-th node
PathBefore(j) ==
  LET fam == family(nodes, current)
  IN join([k \in 1..(j - 1) |-> nodes[fam[k]].text])

\* the positions j of the active path whose node has a non-empty text: the
\* buffer offset Len(PathBefore(j)) is local offset 0 of that node
OwningPositions ==
  LET fam == family(nodes, current)
  IN {j \in 1..Len(fam) : Len(nodes[fam[j]].text) > 0}

\* C15: breakAtPoint with the cursor at local offset 0 of the node that owns
\* it (buffer offset 0 or a boundary between two segments of the active path)
\* creates no node and changes no text and no parentId, and where the
\* function returns a single value that value is null ("create sibling");
\* stated for the breakAtPoint of both LoomPlugin classes.
C15_OffsetZeroNoSplit ==
  ChainOK(nodes, current) =>
    \A j \in OwningPositions :
      LET r1 == breakAtPoint(St, Len(PathBefore(j)))
          r2 == breakAtPoint2(St, Len(PathBefore(j)))
      IN /\ r1.st.nodes = nodes
         /\ r2.st.nodes = nodes
         /\ r2.res = Null

\* C16: breakAtPoint with the cursor at the end of the buffer (behind the last
\* segment of the active path) returns the current id ("create child of
\* current") and changes no node, also when the text of the current node is
\* empty; stated for the breakAtPoint of both LoomPlugin classes.
C16_EndOfBufferNoSplit ==
  ChainOK(nodes, current) =>
    LET end == Len(fullText(nodes, current))
        r1 == breakAtPoint(St, end)
        r2 == breakAtPoint2(St, end)
    IN /\ r1.st.nodes = nodes
       /\ r1.res = <<current, Null>>
       /\ r2.st.nodes = nodes
       /\ r2.res = current

\* what C17 requires of a mergeWithParent(id) step that is not rejected
MergeFrame(id) ==
  LET P == nodes[id].parentId
      below == {k \in DOMAIN nodes \ {id} : inSubtree(nodes, k, id)}
  IN /\ DOMAIN nodes' = DOMAIN nodes \ {id}
     /\ nodes'[P].text = nodes[P].text \o nodes[id].text
     /\ nodes'[P].parentId = nodes[P].parentId
     /\ \A k \in DOMAIN nodes \ {id, P} :
          /\ nodes'[k].text = nodes[k].text
          /\ nodes'[k].parentId = IF nodes[k].parentId = id THEN P ELSE nodes[k].parentId
     /\ current' = P
     /\ fullText(nodes', P) = fullText(nodes, id)
     /\ \A k \in below : fullText(nodes', k) = fullText(nodes, k)

\* C17: a mergeWithParent(id) on the only child id of a node P appends id's
\* text to P's text, moves the children of id under P, removes id and nothing
\* else, keeps P's id and makes P current; fullText(P) afterwards is
\* fullText(id) of before, and the fullText of every former descendant of id
\* is unchanged.
C17_MergeEffect ==
  [][\A id \in DOMAIN nodes :
       (/\ ChainOK(nodes, id)
        /\ canMerge(nodes, id)
        /\ MergeWithParent(id))
       => MergeFrame(id)]_vars

\* C17 witness: a node with a non-empty text and a child is the only child of
\* its parent, and merging it removes it from the node map.
C17_Witness ==
  \E id \in DOMAIN nodes :
    /\ ChainOK(nodes, id)
    /\ canMerge(nodes, id)
    /\ Len(nodes[id].text) > 0
    /\ \E k \in DOMAIN nodes : nodes[k].parentId = id
    /\ id \notin DOMAIN mergeWithParent(St, id).nodes

\* id is a root, or the parent of id has more than one child
MergeRejected(id) ==
  \/ nodes[id].parentId = Null
  \/ Cardinality({k \in DOMAIN nodes : nodes[k].parentId = nodes[id].parentId}) > 1

\* C18: a mergeWithParent(id) on a root, or on a node whose parent has more
\* than one child, changes neither the nodes nor current, the hoist stack or
\* the buffer, whether id is the current node or not.
C18_MergeRejectedNoChange ==
  \A id \in DOMAIN nodes :
    MergeRejected(id) =>
      LET r == mergeWithParent(St, id)
      IN /\ r.nodes = nodes
         /\ r.current = current
         /\ r.hoisted = hoisted
         /\ r.buffer = buffer

\* C18 witness: the document holds a root that is not current and a node
\* that is not current and has a sibling under its parent.
C18_Witness ==
  /\ \E id \in DOMAIN nodes \ {current} : nodes[id].parentId = Null
  /\ \E id \in DOMAIN nodes \ {current} :
       /\ nodes[id].parentId \in DOMAIN nodes
       /\ MergeRejected(id)

\* what C19 requires of the state r that switchTo(id) ends in
SwitchEffect(id, r) ==
  /\ r.current = id
  /\ DOMAIN r.nodes = DOMAIN nodes
  /\ r.nodes[id].unread = FALSE
  /\ \A a \in Range(ancestors(nodes, id)) : r.nodes[a].collapsed = FALSE
  /\ r.buffer = fullText(nodes, id)
  /\ \A k \in DOMAIN nodes : /\ r.nodes[k].text = nodes[k].text
                             /\ r.nodes[k].parentId = nodes[k].parentId

\* C19: switchTo(id) on an existing node (whose path to a root resolves, so
\* that fullText(id) is defined) makes id current, clears its unread flag,
\* uncollapses every proper ancestor of id and puts fullText(id) in the
\* buffer; it changes no text and no parentId and adds or removes no node.
C19_SwitchEffect ==
  \A id \in DOMAIN nodes :
    ChainOK(nodes, id) => SwitchEffect(id, switchTo(St, id))

\* C19 witness: a node that is not current is unread, has a collapsed
\* ancestor and a path text other than the buffer, and switchTo on it has the
\* required effect.
C19_Witness ==
  \E id \in DOMAIN nodes \ {current} :
    /\ ChainOK(nodes, id)
    /\ nodes[id].unread
    /\ \E a \in Range(ancestors(nodes, id)) : nodes[a].collapsed
    /\ fullText(nodes, id) # buffer
    /\ SwitchEffect(id, switchTo(St, id))

\* the state after switchTo(id) has run once, and after it has run twice
SwitchedOnce(id) == switchTo(St, id)

SwitchedTwice(id) == switchTo([SwitchedOnce(id) EXCEPT !.thrown = FALSE], id)

\* C20: switchTo(id) performed twice in a row leaves the same buffer, the
\* same current and the same nodes (texts, parentIds, unread and collapsed
\* flags) as switchTo(id) performed once.
C20_SwitchIdempotent ==
  \A id \in DOMAIN nodes :
    /\ SwitchedTwice(id).buffer = SwitchedOnce(id).buffer
    /\ SwitchedTwice(id).current = SwitchedOnce(id).current
    /\ SwitchedTwice(id).nodes = SwitchedOnce(id).nodes

\* C20 witness: a node for which the first switchTo changes current, the
\* buffer and the flags of the nodes, and the second one changes nothing.
C20_Witness ==
  \E id \in DOMAIN nodes :
    /\ SwitchedOnce(id).current # current
    /\ SwitchedOnce(id).buffer # buffer
    /\ SwitchedOnce(id).nodes # nodes
    /\ SwitchedTwice(id).buffer = SwitchedOnce(id).buffer
    /\ SwitchedTwice(id).nodes = SwitchedOnce(id).nodes

\* the document as it is after the state has been exported and the export
\* imported again
Reimported == import(St, parse(stringify(St, generating))).st

\* C21: exporting the state of a document and importing that export gives
\* back the node map (every field of every node) and the current node of the
\* time of the export.
C21_ExportImportRoundTrip ==
  current \in DOMAIN nodes =>
    /\ Reimported.nodes = nodes
    /\ Reimported.current = current

\* the search terms tried: upper and lower case letters and blanks
Terms == UNION {[1..k -> {"a", "A", " "}] : k \in 0..MaxTerm}

\* letters a and b are the same up to case
SameLetter(a, b) == a = b \/ {a, b} = {"a", "A"}

\* text contains term when case is ignored
ContainsIgnoringCase(text, term) ==
  \E i \in 1..(Len(text) + 1) :
    /\ i + Len(term) - 1 <= Len(text)
    /\ \A k \in 1..Len(term) : SameLetter(text[i + k - 1], term[k])

\* the searchResultState C22 requires of node k after search(term)
Expected(k, term) ==
  IF ContainsIgnoringCase(nodes[k].text, term) THEN "result"
  ELSE IF \E m \in DOMAIN nodes \ {k} :
            /\ ContainsIgnoringCase(nodes[m].text, term)
            /\ inSubtree(nodes, m, k)
       THEN "ancestor"
       ELSE "none"

\* C22: search(term) with a non-empty term gives every node of the document
\* the searchResultState result when its text contains term with case
\* ignored, else ancestor when it is a proper ancestor of a node whose text
\* does, else none.
C22_SearchMarks ==
  \A term \in Terms \ {<<>>} :
    LET r == search(St, noSearch(nodes), term)
    IN /\ ~r.st.thrown
       /\ DOMAIN r.srs = DOMAIN nodes
       /\ \A k \in DOMAIN nodes : r.srs[k] = Expected(k, term)

\* C22 witness: a search for "A" marks a node whose text holds "a" as result,
\* a node above it whose text does not as ancestor, and a third node as none.
C22_Witness ==
  LET r == search(St, noSearch(nodes), <<"A">>)
  IN /\ ~r.st.thrown
     /\ \E m, a, n \in DOMAIN nodes :
          /\ nodes[m].parentId = a
          /\ <<"a">> = nodes[m].text
          /\ r.srs[m] = "result"
          /\ r.srs[a] = "ancestor"
          /\ r.srs[n] = "none"

\* C23: search("") sets the searchResultState of every node to null and
\* searchTerm to the empty string, whatever the search state before it, and
\* changes no text, no parentId and not the current node.
C23_EmptySearchClears ==
  \A srs \in [DOMAIN nodes -> SearchStates] :
    LET r == search(St, srs, <<>>)
    IN /\ \A k \in DOMAIN nodes : r.srs[k] = "null"
       /\ r.searchTerm = <<>>
       /\ r.st.current = current
       /\ DOMAIN r.st.nodes = DOMAIN nodes
       /\ \A k \in DOMAIN nodes : /\ r.st.nodes[k].text = nodes[k].text
                                  /\ r.st.nodes[k].parentId = nodes[k].parentId

\* C23 witness: a search for "a" leaves a result and an ancestor marked, and
\* the search for "" that follows clears both.
C23_Witness ==
  LET r1 == search(St, noSearch(nodes), <<"a">>)
      r2 == search(r1.st, r1.srs, <<>>)
  IN /\ r1.searchTerm = <<"a">>
     /\ \E m, a \in DOMAIN nodes : r1.srs[m] = "result" /\ r1.srs[a] = "ancestor"
     /\ \A k \in DOMAIN nodes : r2.srs[k] = "null"
     /\ r2.searchTerm = <<>>

\* the ids handed out so far that name no node of the document any more
MissingIds == (1..(nextId - 1)) \ DOMAIN nodes

\* C24: a hoist(id) for an id that names no node of the document is rejected:
\* the hoist stack after it is the hoist stack before it.
C24_HoistRejectsMissing ==
  \A id \in MissingIds : hoist(St, id).hoisted = hoisted

\* the prompt generate builds for a document whose whole text is text
PromptFor(text) == prompt((1 :> newNode(text, Null, FALSE)), 1)

\* the state after the breakAtPoint of complete() with the cursor at c, and
\* the activation of generate that complete() then suspends
Broken(c) == breakAtPoint(St, c).st

CompleteRequest(c) ==
  [root |-> Broken(c).current, focus |-> TRUE,
   trailingSpace |-> endsWithWhitespace(fullText(Broken(c).nodes, Broken(c).current))]

\* C25: complete() with the cursor at offset c of the buffer (the buffer
\* being the text of the path to the current node) builds its prompt from
\* buffer[0:c], and every node made from a completion is a child of the
\* current node whose fullText is buffer[0:c] followed by the cleaned-up
\* completion.
C25_CompletesTextBeforeCursor ==
  (ChainOK(nodes, current) /\ fullText(nodes, current) = buffer) =>
    \A c \in 0..Len(buffer) :
      /\ prompt(Broken(c).nodes, Broken(c).current) = PromptFor(SubSeq(buffer, 1, c))
      /\ \A prov \in Providers : \A raw \in Answers :
           LET g == generateResume(Broken(c), Broken(c).current, CompleteRequest(c), prov,
                                   [kind |-> "ok", completions |-> raw]).st
           IN \A k \in 1..Len(raw) :
                LET id == Broken(c).nextId + k - 1
                IN /\ id \in DOMAIN g.nodes
                   /\ g.nodes[id].parentId = current
                   /\ fullText(g.nodes, id) =
                        SubSeq(buffer, 1, c) \o cleanUp(raw[k], prov, CompleteRequest(c).trailingSpace)

\* the lastVisited stamps the nodes may carry (0: never visited), and the
\* values Date.now() may give
Stamps == [DOMAIN nodes -> 0..MaxStamp]

Clock == 1..(MaxStamp + 1)

\* the children of the current node
ChildrenOfCurrent == {c \in DOMAIN nodes : nodes[c].parentId = current}

\* current has a parent, has been visited, and none of its siblings has been
\* visited since
VisitedLast(lv) ==
  /\ current \in DOMAIN nodes
  /\ nodes[current].parentId \in DOMAIN nodes
  /\ lv[current] > 0
  /\ \A c \in DOMAIN nodes \ {current} :
       nodes[c].parentId = nodes[current].parentId => lv[c] < lv[current]

\* the state after switch-to-parent at time t1 and switch-to-child at time t2
ParentThenChild(lv, t1, t2) ==
  LET up == switchToParent(St, lv, t1)
  IN switchToChild([up.st EXCEPT !.thrown = FALSE], up.lv, t2).st

\* C26: switch-to-child makes current the child of current with the greatest
\* lastVisited (a child never visited counting as oldest) and changes nothing
\* when current has no children; and from a current node that has a parent
\* and was visited after each of its siblings, switch-to-parent followed by
\* switch-to-child ends on the node it started from.
C26_SwitchToChild ==
  \A lv \in Stamps :
    /\ \A now \in Clock :
         LET r == switchToChild(St, lv, now)
         IN IF ChildrenOfCurrent = {} THEN r.st = St /\ r.lv = lv
            ELSE /\ r.st.current \in ChildrenOfCurrent
                 /\ \A c \in ChildrenOfCurrent : lv[c] <= lv[r.st.current]
                 /\ r.st = switchTo(St, r.st.current)
    /\ VisitedLast(lv) =>
         \A t1, t2 \in Clock : ParentThenChild(lv, t1, t2).current = current

\* C26 witness: the current node has an older sibling that has been visited
\* too, and switch-to-parent followed by switch-to-child ends on the current
\* node again.
C26_Witness ==
  \E b \in DOMAIN nodes : \E lv \in Stamps :
    /\ VisitedLast(lv)
    /\ b < current
    /\ nodes[b].parentId = nodes[current].parentId
    /\ lv[b] > 0
    /\ switchToParent(St, lv, MaxStamp + 1).st.current = nodes[current].parentId
    /\ ParentThenChild(lv, MaxStamp + 1, MaxStamp + 1).current = current

\* what C27 requires of the state r a creating command ends in: one node
\* more, with the given text and parentId and no children, which is current,
\* and the text and parentId of every other node as before
CreateFrame(r, text, parentId) ==
  /\ nextId \notin DOMAIN nodes
  /\ DOMAIN r.nodes = DOMAIN nodes \cup {nextId}
  /\ r.current = nextId
  /\ r.nodes[nextId].text = text
  /\ r.nodes[nextId].parentId = parentId
  /\ \A k \in DOMAIN r.nodes : r.nodes[k].parentId # nextId
  /\ \A k \in DOMAIN nodes : /\ r.nodes[k].text = nodes[k].text
                             /\ r.nodes[k].parentId = nodes[k].parentId

\* C27: create-child(id), create-sibling(id) and clone(id) on a node of the
\* document each add exactly one node and make it current: the child has the
\* empty text and parentId id, the sibling the empty text and the parentId of
\* id, the clone the text and the parentId of id (and so the fullText of id)
\* and no children; the text and parentId of every other node stay the same.
C27_CreateCommands ==
  \A id \in DOMAIN nodes :
    /\ CreateFrame(createChild(St, id), <<>>, id)
    /\ CreateFrame(createSibling(St, id), <<>>, nodes[id].parentId)
    /\ CreateFrame(clone(St, id), nodes[id].text, nodes[id].parentId)
    /\ ChainOK(nodes, id) => fullText(clone(St, id).nodes, nextId) = fullText(nodes, id)

\* C27 witness: a node with a text, a parent and a child of its own, which
\* is not current, is cloned: the clone carries its text and parent and has
\* no children.
C27_Witness ==
  \E id \in DOMAIN nodes \ {current} :
    /\ Len(nodes[id].text) > 0
    /\ nodes[id].parentId \in DOMAIN nodes
    /\ \E c \in DOMAIN nodes : nodes[c].parentId = id
    /\ CreateFrame(clone(St, id), nodes[id].text, nodes[id].parentId)
    /\ fullText(clone(St, id).nodes, nextId) = fullText(nodes, id)

\* the editor texts tried on a document
Edits == TextsUpTo(MaxEdit)

\* the active path t0..tk as node ids, and P(i) = t0 + .. + ti (i from 0)
Path == family(nodes, current)

P(i) == IF i < 0 THEN <<>> ELSE fullText(nodes, Path[i + 1])

\* B starts with p
IsPrefix(p, B) == Len(p) <= Len(B) /\ \A j \in 1..Len(p) : B[j] = p[j]

\* the characters of B at the (0-based) positions a <= pos < b
Slice(B, a, b) == [j \in 1..Max(0, Min(b, Len(B)) - a) |-> B[a + j]]

\* the ancestor indexes i in 0..k-1 for which B does not start with P(i)
Mismatches(B) == {i \in 0..(Len(Path) - 2) : ~IsPrefix(P(i), B)}

FirstMismatch(B) == CHOOSE i \in Mismatches(B) : \A j \in Mismatches(B) : i <= j

\* the document after the editor-change handler has run on the editor text B
Reconciled(B) == editorChange([St EXCEPT !.buffer = B], B)

\* the texts of all nodes but those of `changed`, and all parentIds, are as
\* before in r
OnlyTextOf(changed, r) ==
  /\ DOMAIN r.nodes = DOMAIN nodes
  /\ \A n \in DOMAIN nodes :
       /\ r.nodes[n].parentId = nodes[n].parentId
       /\ n \notin changed => r.nodes[n].text = nodes[n].text

\* C28: when i is the first ancestor index for which the editor text B does
\* not start with P(i), the reconciliation gives node i the text
\* B[len(P(i-1)) .. len(B) - len(t(i+1) + .. + tk)] and changes no other
\* text and no parentId.
C28_AncestorEdit ==
  ChainOK(nodes, current) =>
    \A B \in Edits :
      Mismatches(B) # {} =>
        LET i == FirstMismatch(B)
            suffix == Len(fullText(nodes, current)) - Len(P(i))
        IN /\ Reconciled(B).nodes[Path[i + 1]].text =
                Slice(B, Len(P(i - 1)), Len(B) - suffix)
           /\ OnlyTextOf({Path[i + 1]}, Reconciled(B))

\* C28 witness: an editor text that departs from the path inside an ancestor
\* that has a text after it on the path; the ancestor gets a new, non-empty
\* text that is not the rest of the editor text.
C28_Witness ==
  /\ ChainOK(nodes, current)
  /\ \E B \in Edits :
       /\ Mismatches(B) # {}
       /\ Len(fullText(nodes, current)) > Len(P(FirstMismatch(B)))
       /\ LET new == Reconciled(B).nodes[Path[FirstMismatch(B) + 1]].text
          IN /\ new # nodes[Path[FirstMismatch(B) + 1]].text
             /\ new # <<>>
             /\ new # Slice(B, Len(P(FirstMismatch(B) - 1)), Len(B))

\* C29: when the editor text B starts with P(i) for every ancestor index i,
\* the reconciliation gives the current node the text B[len(P(k-1))..] and
\* changes no ancestor (nor any other node), so that fullText(current) = B.
C29_CurrentEdit ==
  ChainOK(nodes, current) =>
    \A B \in Edits :
      Mismatches(B) = {} =>
        /\ Reconciled(B).nodes[current].text = Slice(B, Len(P(Len(Path) - 2)), Len(B))
        /\ OnlyTextOf({current}, Reconciled(B))
        /\ fullText(Reconciled(B).nodes, current) = B

\* C29 witness: the current node has an ancestor with a text, and an editor
\* text that starts with the ancestors' texts gives it a new text.
C29_Witness ==
  /\ ChainOK(nodes, current)
  /\ Len(Path) > 1
  /\ Len(P(Len(Path) - 2)) > 0
  /\ \E B \in Edits :
       /\ Mismatches(B) = {}
       /\ Reconciled(B).nodes[current].text # nodes[current].text
       /\ fullText(Reconciled(B).nodes, current) = B

\* the settings of contextLength and of maxTokens tried
TokenSettings == 0..MaxContext

\* q is made of the last elements of p
IsSuffix(q, p) ==
  /\ Len(q) <= Len(p)
  /\ \A k \in 1..Len(q) : q[k] = p[Len(p) - Len(q) + k]

\* C30: for every provider and every setting of contextLength and maxTokens,
\* the prompt handed to the provider is made of the trailing tokens of the
\* prompt generate assembled for the current node and has at most
\* contextLength - maxTokens tokens (none when that is not positive).
C30_PromptWithinContext ==
  ChainOK(nodes, current) =>
    \A prov \in CompletionMethods : \A contextLength, maxTokens \in TokenSettings :
      LET p == prompt(nodes, current)
          sent == handed(prov, p, contextLength, maxTokens)
      IN /\ IsSuffix(encode(sent), encode(p))
         /\ Len(encode(sent)) <= Max(contextLength - maxTokens, 0)

\* the raw completions tried on the clean-up
Raws ==
  {NullCompletion, <<>>, <<"a">>, <<" ">>, <<" ", "a">>, <<" ", " ">>, <<"<">>,
   <<" ", "[">>, <<"a", " ">>}

\* the completion as escaped for the editor (a null completion being "")
Escaped(raw) == escape(IF raw = NullCompletion THEN <<>> ELSE raw)

\* generate(current) strips trailing whitespace from its prompt
Stripped ==
  LET p == <<EndOfText>> \o fullText(nodes, current)
  IN p[Len(p)] \in Whitespace

PlainProviders == CompletionMethods \ ChatProviders

StartsWithSpace(t) == Len(t) > 0 /\ t[1] = " "

\* C31 as stated: for a plain-completion provider the clean-up drops one
\* leading space of a completion that starts with a space when no trailing
\* whitespace was stripped from the prompt, and leaves the completion as it
\* is otherwise.
C31_DropsSpaceWhenNoneStripped ==
  ChainOK(nodes, current) =>
    \A prov \in PlainProviders : \A raw \in Raws :
      cleanUp(raw, prov, Stripped) =
        IF ~Stripped /\ StartsWithSpace(Escaped(raw)) THEN Tail(Escaped(raw))
        ELSE Escaped(raw)

\* C31 amended: for a plain-completion provider the clean-up drops one
\* leading space of a completion that starts with a space when trailing
\* whitespace was stripped from the prompt, and leaves the (escaped)
\* completion as it is otherwise.
C31_DropsSpaceWhenStripped ==
  ChainOK(nodes, current) =>
    \A prov \in PlainProviders : \A raw \in Raws :
      cleanUp(raw, prov, Stripped) =
        IF Stripped /\ StartsWithSpace(Escaped(raw)) THEN Tail(Escaped(raw))
        ELSE Escaped(raw)

\* C31 witness: the prompt of the current node ends in whitespace, and the
\* completion " a" is cleaned up to "a" for the provider ocp.
C31_Witness ==
  /\ ChainOK(nodes, current)
  /\ Stripped
  /\ cleanUp(<<" ", "a">>, "ocp", Stripped) = <<"a">>

\* C32: for a chat-style provider the clean-up puts exactly one space in
\* front of every completion (a null completion counting as the empty
\* string) when the prompt had no trailing whitespace, and nothing when
\* trailing whitespace was stripped from the prompt.
C32_ChatSeparator ==
  ChainOK(nodes, current) =>
    \A prov \in ChatProviders : \A raw \in Raws :
      cleanUp(raw, prov, Stripped) =
        IF Stripped THEN Escaped(raw) ELSE <<" ">> \o Escaped(raw)

\* C32 witness: the prompt of the current node has no trailing whitespace,
\* and a null completion and the completion " a" both get one space in front
\* for the provider openai-chat.
C32_Witness ==
  /\ ChainOK(nodes, current)
  /\ ~Stripped
  /\ cleanUp(NullCompletion, "openai-chat", Stripped) = <<" ">>
  /\ cleanUp(<<" ", "a">>, "openai-chat", Stripped) = <<" ", " ", "a">>

\* ids that name no node of the document (undefined among them)
AbsentIds == ((1..MaxId) \cup {Undef}) \ DOMAIN nodes

\* C33: switchTo(id) for an id that names no node aborts without partial
\* mutation: current, every field of every node and the buffer are as they
\* were before.
C33_MissingIdNoMutation ==
  \A id \in AbsentIds :
    /\ switchTo(St, id).current = current
    /\ switchTo(St, id).nodes = nodes
    /\ switchTo(St, id).buffer = buffer

\* the step gives a node that exists before and after it another parentId
ParentChanged ==
  \E k \in DOMAIN nodes \cap DOMAIN nodes' : nodes'[k].parentId # nodes[k].parentId

\* the step is one of mergeWithParent or one that runs breakAtPoint (the
\* split commands, and complete(), which splits before it generates)
SplitOrMergeStep ==
  \/ \E id \in DOMAIN nodes : MergeWithParent(id)
  \/ \E c \in 0..Len(buffer) :
       BreakAtPoint(c) \/ BreakAtPointCreateChild(c) \/ Complete(c)

\* hoist and search leave every node's parentId as it is
HoistSearchKeepParents ==
  /\ \A id \in DOMAIN nodes :
       \A k \in DOMAIN nodes : hoist(St, id).nodes[k].parentId = nodes[k].parentId
  /\ \A term \in {<<>>, <<"a">>} :
       \A k \in DOMAIN nodes :
         search(St, noSearch(nodes), term).st.nodes[k].parentId = nodes[k].parentId

\* C34: the parentId of a node that already exists changes only in a step of
\* mergeWithParent or of breakAtPoint; no buffer edit, switchTo, create,
\* clone, delete or generation step changes it, and neither do hoist and
\* search.
C34_ParentIdFrame ==
  [][(ParentChanged => SplitOrMergeStep) /\ HoistSearchKeepParents]_vars

\* C34 witness: a node whose parent was created after it, as happens only to
\* the children of a node that was split.
C34_Witness ==
  \E k \in DOMAIN nodes :
    /\ nodes[k].parentId \in DOMAIN nodes
    /\ nodes[k].parentId > k

\* the exported document with the parentId of node k rewritten to p, as a
\* file handed to import may hold
Rewritten(k, p) ==
  LET data == parse(stringify(St, generating))
  IN [data EXCEPT !.nodes[k].parentId = p]

\* the parentId walk from id does not end at a root of ns
CorruptFrom(ns, id) == ~ChainOK(ns, id)

\* C35: ancestor and fullText walks always terminate: on a node map with a
\* parentId cycle or a parentId that resolves to no node, as an imported
\* document may hold, the walk stops with a failure instead of looping
\* forever (and returns normally on a sound chain).
C35_WalksTerminate ==
  \A k \in DOMAIN nodes, p \in 1..MaxId :
    LET ns == Rewritten(k, p).nodes
    IN \A id \in DOMAIN ns :
         /\ parentWalk(ns, id) # "diverges"
         /\ CorruptFrom(ns, id) => parentWalk(ns, id) # "returns"

\* the editor-change handler run on the synchronized buffer fullText(current)
Synchronized ==
  editorChange([St EXCEPT !.buffer = fullText(nodes, current)],
               fullText(nodes, current))

\* C36: reconciliation is a no-op on a synchronized document: when the
\* editor-change handler runs with the buffer equal to fullText(current), as
\* after the setValue performed by switchTo, no node's text changes.
C36_SynchronizedNoOp ==
  ChainOK(nodes, current) =>
    /\ ~Synchronized.thrown
    /\ \A k \in DOMAIN nodes : Synchronized.nodes[k].text = nodes[k].text
    /\ \A id \in DOMAIN nodes :
         ChainOK(nodes, id) =>
           \A k \in DOMAIN nodes : switchTo(St, id).nodes[k].text = nodes[k].text

\* C36 witness: the current node and its parent both hold text, and the
\* handler run on their joined text leaves both as they are.
C36_Witness ==
  /\ ChainOK(nodes, current)
  /\ nodes[current].parentId \in DOMAIN nodes
  /\ Len(nodes[current].text) > 0
  /\ Len(nodes[nodes[current].parentId].text) > 1
  /\ Synchronized.nodes = nodes

\* C37: for every list of ids, lists that name several or all roots
\* included, delete(ids) leaves at least one root node in the document: the
\* node map is never empty after a delete.
C37_DeleteKeepsARoot ==
  \A ids \in IdLists :
    LET r == delete(St, ids)
    IN /\ DOMAIN r.nodes # {}
       /\ \E k \in DOMAIN r.nodes : r.nodes[k].parentId = Null

\* what C38 requires of breakAtPoint with the cursor at offset c of the
\* buffer: n is the node the call reports as split
SplitKeepsFullTexts(c) ==
  LET r == breakAtPoint(St, c)
      n == r.res[1]
      split == r.res[2] # Null
  IN /\ r.ok
     /\ r.st.current = current
     /\ split => fullText(r.st.nodes, n) = SubSeq(fullText(nodes, current), 1, c)
     /\ \A k \in DOMAIN nodes :
          (ChainOK(nodes, k) /\ ~(split /\ k = n)) =>
            /\ ChainOK(r.st.nodes, k)
            /\ fullText(r.st.nodes, k) = fullText(nodes, k)

\* C38: breakAtPoint leaves the fullText of every pre-existing node other
\* than the split node n unchanged (descendants of n keep their fullText
\* through the new node) and leaves current unchanged; only fullText(n)
\* shrinks to the text before the cursor.
C38_SplitKeepsFullTexts ==
  ChainOK(nodes, current) =>
    \A c \in 0..Len(fullText(nodes, current)) : SplitKeepsFullTexts(c)

\* C38 witness: the cursor is inside the text of a node that has a child,
\* the node is split there and the child's fullText stays what it was.
C38_Witness ==
  /\ ChainOK(nodes, current)
  /\ nextId <= MaxId
  /\ \E c \in 1..Len(fullText(nodes, current)) :
       LET r == breakAtPoint(St, c)
       IN /\ r.res[2] # Null
          /\ Len(fullText(r.st.nodes, r.res[1])) < Len(fullText(nodes, r.res[1]))
          /\ \E k \in DOMAIN nodes :
               /\ nodes[k].parentId = r.res[1]
               /\ r.st.nodes[k].parentId = r.res[2]
          /\ SplitKeepsFullTexts(c)

\* generate resumed for activation i with { ok: true, completions: [] }
EmptyAnswer(i) ==
  generateResume(St, generating, inflight[i], provider,
                 [kind |-> "ok", completions |-> <<>>])

\* C39: when a provider call returns Ok with an empty list of completions,
\* no node is created, current, the buffer and every node field stay
\* unchanged, and generating returns to null.
C39_EmptyAnswerChangesNothing ==
  \A i \in 1..Len(inflight) :
    /\ EmptyAnswer(i).st.nodes = nodes
    /\ EmptyAnswer(i).st.current = current
    /\ EmptyAnswer(i).st.buffer = buffer
    /\ EmptyAnswer(i).gen = Null

\* the other children of id's parent (for a root: the other roots)
OtherSiblings(id) ==
  {k \in DOMAIN nodes : k # id /\ nodes[k].parentId = nodes[id].parentId}

\* the node map after loom:clear-siblings(id) and after loom:clear-children(id)
AfterClearSiblings(id) == delete(St, siblingsToClear(nodes, id)).nodes

AfterClearChildren(id) == delete(St, childrenOf(nodes, id)).nodes

\* C40: clear-siblings(id) removes exactly the other children of id's parent
\* (for a root: the other roots) together with their descendants and never
\* removes id or a descendant of id; clear-children(id) removes exactly the
\* proper descendants of id and never removes id; both whether or not id is
\* the current node.
C40_ClearRemovesExactly ==
  \A id \in DOMAIN nodes :
    /\ DOMAIN AfterClearSiblings(id) =
         DOMAIN nodes \ WithDescendants(nodes, OtherSiblings(id))
    /\ WithDescendants(nodes, {id}) \subseteq DOMAIN AfterClearSiblings(id)
    /\ DOMAIN AfterClearChildren(id) =
         DOMAIN nodes \ (WithDescendants(nodes, {id}) \ {id})
    /\ id \in DOMAIN AfterClearChildren(id)

\* C40 witness: clear-siblings on the current node removes a sibling and
\* keeps a child of the current node, and clear-siblings on another node
\* removes the current node.
C40_Witness ==
  /\ current \in DOMAIN nodes
  /\ OtherSiblings(current) # {}
  /\ \E k \in DOMAIN nodes : nodes[k].parentId = current
  /\ DOMAIN AfterClearSiblings(current) # DOMAIN nodes
  /\ DOMAIN AfterClearChildren(current) # DOMAIN nodes
  /\ \E id \in DOMAIN nodes \ {current} : current \notin DOMAIN AfterClearSiblings(id)

====
